---- MODULE Spec2Model ----
(***************************************************************************)
(* PulseMaker (src/src/main.cpp): an Arduino sketch that emulates the      *)
(* pulse train of a radiation detector.  Every 10 ms one 32-bit            *)
(* pseudorandom number is drawn and compared with a threshold; a draw      *)
(* below the threshold pulses a pin low for 1000 us.  A push button        *)
(* toggles the threshold between two presets and once a minute the number  *)
(* of pulses is printed as a CSV record.                                   *)
(*                                                                         *)
(* The model is the state machine of setup() and of one loop() call after  *)
(* the other.  A loop() call is cut at the places the properties look at:   *)
(* the button handler, the trial, the pulse hold, the blink timer and the   *)
(* report.  The millisecond counter of the platform is a separate action    *)
(* (Advance): it runs on its own between the loop() calls.                  *)
(*                                                                         *)
(* uint32_t values are kept at their width.  TLC's integers are 32-bit     *)
(* signed, so a uint32_t is a pair <<hi, lo>> of 16-bit limbs.             *)
(***************************************************************************)
EXTENDS Integers, Sequences, FiniteSets, TLC

-----------------------------------------------------------------------------
(* uint32_t arithmetic on 16-bit limbs                                      *)

\* 2^16, the base of the limbs
B16 == 256 * 256

B8 == 16 * 16

\* the uint32_t with the value n, for 0 <= n < 2^31
ToU32(n) == <<n \div B16, n % B16>>

UINT32_MAX == <<B16 - 1, B16 - 1>>

Zero32 == <<0, 0>>

Lt32(a, b) == a[1] < b[1] \/ (a[1] = b[1] /\ a[2] < b[2])

Le32(a, b) == a = b \/ Lt32(a, b)

\* a + b in uint32_t: the carry out of bit 31 is lost
Add32(a, b) ==
    LET s == a[2] + b[2]
    IN  <<(a[1] + b[1] + (s \div B16)) % B16, s % B16>>

\* a - b in uint32_t: wraps below zero
Sub32(a, b) ==
    LET d == a[2] - b[2]
        borrow == IF d < 0 THEN 1 ELSE 0
    IN  <<(a[1] - b[1] - borrow + B16) % B16, (d + B16) % B16>>

Pow2(n) == IF n = 0 THEN 1 ELSE
           IF n = 1 THEN 2 ELSE
           IF n = 2 THEN 4 ELSE
           IF n = 3 THEN 8 ELSE
           IF n = 4 THEN 16 ELSE
           IF n = 5 THEN 32 ELSE
           IF n = 6 THEN 64 ELSE
           IF n = 7 THEN 128 ELSE
           IF n = 8 THEN 256 ELSE
           IF n = 9 THEN 512 ELSE
           IF n = 10 THEN 1024 ELSE
           IF n = 11 THEN 2048 ELSE
           IF n = 12 THEN 4096 ELSE
           IF n = 13 THEN 8192 ELSE
           IF n = 14 THEN 16384 ELSE
           IF n = 15 THEN 32768 ELSE 65536

\* a >> n in uint32_t, for 0 <= n <= 31
Shr32(a, n) ==
    IF n >= 16
    THEN <<0, a[1] \div Pow2(n - 16)>>
    ELSE <<a[1] \div Pow2(n),
           (a[1] % Pow2(n)) * Pow2(16 - n) + (a[2] \div Pow2(n))>>

\* the exact product of two 16-bit limbs, as <<hi, lo>>; no intermediate
\* value exceeds 2^25
Mul16(x, y) ==
    LET p0 == (x % B8) * y
        p1 == (x \div B8) * y
        s  == (p1 % B8) * B8 + (p0 % B16)
        lo == s % B16
        hi == (p1 \div B8) + (p0 \div B16) + (s \div B16)
    IN  <<hi, lo>>

\* the exact product of two uint32_t, as four 16-bit limbs, most
\* significant first
MulExact(a, b) ==
    LET ll == Mul16(a[2], b[2])
        lh == Mul16(a[2], b[1])
        hl == Mul16(a[1], b[2])
        hh == Mul16(a[1], b[1])
        l0 == ll[2]
        s1 == ll[1] + lh[2] + hl[2]
        l1 == s1 % B16
        s2 == (s1 \div B16) + lh[1] + hl[1] + hh[2]
        l2 == s2 % B16
        l3 == ((s2 \div B16) + hh[1]) % B16
    IN  <<l3, l2, l1, l0>>

\* a * b in uint32_t: the low 32 bits of the exact product
Mul32(a, b) == LET p == MulExact(a, b) IN <<p[3], p[4]>>

\* the order of two four-limb values
Le64(p, q) ==
    \/ p = q
    \/ \E i \in 1..4 : p[i] < q[i] /\ \A j \in 1..(i - 1) : p[j] = q[j]

-----------------------------------------------------------------------------
(* Compile-time constants of the sketch                                     *)

HIGH_RATE == 48000

LOW_RATE == 1200

\* the shift of UINT32_MAX >> 18
THRESHOLD_SHIFT == 18

\* the constant with one bit more: twice the rate
ThresholdConstantShift17 == Shr32(UINT32_MAX, THRESHOLD_SHIFT - 1)

\* the constant with four bits more: HIGH_RATE times it exceeds 32 bits
ThresholdConstantShift14 == Shr32(UINT32_MAX, THRESHOLD_SHIFT - 4)

\* UINT32_MAX >> 18
THRESHOLD_CONSTANT == Shr32(UINT32_MAX, THRESHOLD_SHIFT)

\* microseconds the pulse pin is held low
PULSE_DURATION == 1000

\* period of repetion_timer, ms: one trial per period
REPETITION_TIME == 10

BLINK_TIME == 20

\* period of minute_timer, ms
MINUTE_TIME == 60000

\* the count rates the comments give for the two presets
HIGH_CPM == 1100

LOW_CPM == 30

\* the number of values setup() draws and prints
STARTUP_DRAWS == 5

\* threshold = HIGH_RATE * THRESHOLD_CONSTANT in uint32_t
HighThreshold == Mul32(ToU32(HIGH_RATE), THRESHOLD_CONSTANT)

\* threshold = LOW_RATE * THRESHOLD_CONSTANT in uint32_t
LowThreshold == Mul32(ToU32(LOW_RATE), THRESHOLD_CONSTANT)

-----------------------------------------------------------------------------
(* Bounds of the model                                                      *)

\* how many times the millisecond counter is moved in a run
MaxAdvances == 3

\* the depth of the debouncer's sample history
DebounceSamples == 2

-----------------------------------------------------------------------------
(* RBD::Timer (RBD_Timer.h), as the sketch uses it: a period, the time of   *)
(* the last restart, and a state that turns EXPIRED when polled after the   *)
(* period has run out.  millis() - _waypoint is taken in unsigned long.     *)

TimerNew(period) ==
    [timeout |-> IF period > 0 THEN period ELSE 1,
     waypoint |-> Zero32,
     state |-> "EXPIRED",
     has_been_expired |-> FALSE]

TimerRestart(t, now) ==
    [t EXCEPT !.waypoint = now, !.state = "ACTIVE", !.has_been_expired = FALSE]

TimerGetValue(t, now) == Sub32(now, t.waypoint)

TimerUpdateState(t, now) ==
    IF t.state = "ACTIVE" /\ ~Lt32(TimerGetValue(t, now), ToU32(t.timeout))
    THEN [t EXCEPT !.state = "EXPIRED"]
    ELSE t

TimerIsExpired(t, now) == TimerUpdateState(t, now).state = "EXPIRED"

\* onRestart(): true, and the timer restarted, when it has expired
TimerOnRestart(t, now) == TimerIsExpired(t, now)

TimerAfterOnRestart(t, now) ==
    IF TimerIsExpired(t, now) THEN TimerRestart(t, now) ELSE TimerUpdateState(t, now)

\* onExpired(): true once per restart, at the first poll that finds it expired
TimerOnExpired(t, now) == ~t.has_been_expired /\ TimerIsExpired(t, now)

TimerAfterOnExpired(t, now) ==
    IF t.has_been_expired THEN t
    ELSE IF TimerIsExpired(t, now)
         THEN [TimerUpdateState(t, now) EXCEPT !.has_been_expired = TRUE]
         ELSE TimerUpdateState(t, now)

-----------------------------------------------------------------------------
(* Debouncer (button_debounce.h), bit 0 of its bytes: pin 0 is the only pin *)
(* the sketch feeds.  A sample is 1 when the pin is at its active level;    *)
(* the debounced state is the AND of the last DebounceSamples samples.      *)

Xor1(a, b) == (a + b) % 2

DebouncerNew(pulledUp) ==
    [state |-> [i \in 0..(DebounceSamples - 1) |-> 0],
     index |-> 0,
     debouncedState |-> 0,
     changed |-> 0,
     pullType |-> pulledUp]

ButtonProcess(b, portStatus) ==
    LET st  == [b.state EXCEPT ![b.index] = Xor1(portStatus, b.pullType)]
        deb == IF \A i \in DOMAIN st : st[i] = 1 THEN 1 ELSE 0
    IN  [b EXCEPT !.state = st,
                  !.index = (b.index + 1) % DebounceSamples,
                  !.debouncedState = deb,
                  !.changed = Xor1(deb, b.debouncedState)]

ButtonPressed(b) == b.changed = 1 /\ b.debouncedState = 1

-----------------------------------------------------------------------------
(* State                                                                    *)

VARIABLES
    pc,              \* where the program is: setup(), or a place in loop()
    ms,              \* millis(), a uint32_t
    advances,        \* how many times ms has been moved (bounds the run)
    sfmt,            \* the generator: seeded or not, values drawn so far,
                     \* and whether a value was ever drawn from it unseeded
    repetion_timer,
    blink_timer,
    minute_timer,
    button,          \* the Debouncer
    threshold,       \* static uint32_t threshold
    fast,            \* static bool fast
    cpm,             \* static int cpm
    nextrandom,      \* the value drawn by the trial of this loop() call
    pulse_pin,       \* level of PULSE_PIN
    led_pin,         \* level of LED_PIN
    records,         \* the CSV records printed so far, <<millis, cpm>>
    window_pulses,   \* history: pulses of PULSE_PIN since the last record
    iter_threshold,  \* history: threshold on entry to this loop() call
    contact,         \* the push button itself, followed through one press
                     \* and release: where it is in the cycle, for how many
                     \* samples it has rested closed, and how many press
                     \* edges the debouncer has reported
    iter_pulsed,     \* history: this loop() call has made a pulse
    indicator        \* history of the LED hold: "new" before the first
                     \* pulse, "armed" by a pulse, "cleared" once the
                     \* switching off has run for that pulse, "new_cleared"
                     \* when it has run before any pulse, "twice" when it
                     \* has run again without a pulse in between

vars == <<pc, ms, advances, sfmt, repetion_timer, blink_timer, minute_timer,
          button, threshold, fast, cpm, nextrandom, pulse_pin, led_pin,
          records, window_pulses, iter_threshold, contact, iter_pulsed,
          indicator>>

\* the amounts by which the millisecond counter is seen to move between two
\* loop() calls: a trial period, a report window, and half the range of the
\* counter (2^31)
Deltas == {ToU32(REPETITION_TIME), ToU32(MINUTE_TIME), <<B16 \div 2, 0>>}

\* the values a draw is taken from: the last value below each threshold and
\* each threshold itself
RandomValues ==
    {Sub32(LowThreshold, ToU32(1)), LowThreshold,
     Sub32(HighThreshold, ToU32(1)), HighThreshold}

\* the levels digitalRead(BUTTON_PIN) returns
Levels == {0, 1}

PinLevels == {"LOW", "HIGH"}

\* the globals as constructed and the statics of loop() as initialised,
\* before setup() has run
Init ==
    /\ pc = "setup"
    /\ ms = Zero32
    /\ advances = 0
    /\ sfmt = [seeded |-> FALSE, draws |-> 0, drawn_unseeded |-> FALSE]
    /\ repetion_timer = TimerNew(REPETITION_TIME)
    /\ blink_timer = TimerNew(BLINK_TIME)
    /\ minute_timer = TimerNew(MINUTE_TIME)
    /\ button = DebouncerNew(1)
    /\ threshold = HighThreshold
    /\ fast = TRUE
    /\ cpm = 0
    /\ nextrandom = Zero32
    /\ pulse_pin = "FLOAT"
    /\ led_pin = "FLOAT"
    /\ records = <<>>
    /\ window_pulses = 0
    /\ iter_threshold = HighThreshold
    /\ contact = [phase |-> "open", held |-> 0, edges |-> 0]
    /\ iter_pulsed = FALSE
    /\ indicator = "new"

-----------------------------------------------------------------------------
(* The pieces of setup() and loop() the actions are built from              *)

\* setup() going on without seeding the generator
SfmtInitGenRandMissing(g) == g

\* line 63: sfmt_init_gen_rand(&sfmt, SEED) starts the sequence of the seed
SfmtInitGenRand(g) == [g EXCEPT !.seeded = TRUE, !.draws = 0]

\* lines 66 and 96: sfmt_genrand_uint32(&sfmt) consumes one value
SfmtGenrand(g) ==
    [g EXCEPT !.draws = @ + 1,
              !.drawn_unseeded = @ \/ ~g.seeded]

RECURSIVE SfmtGenrandTimes(_, _)
SfmtGenrandTimes(g, n) ==
    IF n = 0 THEN g ELSE SfmtGenrandTimes(SfmtGenrand(g), n - 1)

\* the loop of setup() running once too often
SfmtSetupDrawsInclusive(g) == SfmtGenrandTimes(g, STARTUP_DRAWS + 1)

\* lines 65-68: the values setup() draws and prints
SfmtSetupDraws(g) == SfmtGenrandTimes(g, STARTUP_DRAWS)

\* the level read passed on inverted
ButtonSampleInverted(level) == 1 - level

\* line 81: digitalRead(BUTTON_PIN) is passed to the debouncer as read
ButtonSample(level) == level

\* setup() returning without starting the report timer
MinuteTimerAfterSetupNotStarted(t, now) == t

\* line 71: minute_timer.restart() at the end of setup()
MinuteTimerAfterSetup(t, now) == TimerRestart(t, now)

\* a toggle on the debounced level instead of its leading edge
ToggleConditionLevel(b) == b.debouncedState = 1

\* line 82: the condition of the toggle
ToggleCondition(b) == ButtonPressed(b)

\* the toggle leaving the flag as it was
ToggleFastKept(f) == f

\* lines 83-90: the flag after a toggle
ToggleFast(f) == ~f

\* both branches of the toggle setting the low threshold
ToggleThresholdSameBranch(f) == LowThreshold

\* the two branches of the toggle exchanged
ToggleThresholdSwapped(f) == IF f THEN HighThreshold ELSE LowThreshold

\* lines 83-90: the threshold after a toggle, from the flag before it
ToggleThreshold(f) == IF f THEN LowThreshold ELSE HighThreshold

\* the toggle starting a new count
CpmAfterToggleCleared(c) == 0

\* lines 83-90: the toggle does not write cpm
CpmAfterToggle(c) == c

\* the trial comparing with the threshold the loop() call started with
TrialThresholdStale == iter_threshold

\* line 97: the threshold the draw is compared with
TrialThreshold == threshold

\* the comparison with <= in place of <
TrialHitInclusive(r, thr) == Le32(r, thr)

\* line 97: the comparison
TrialHit(r, thr) == Lt32(r, thr)

\* blink_timer.restart() placed after the if instead of inside it
BlinkAfterMissRestarted(t, now) == TimerRestart(t, now)

\* lines 97-103: a draw that is not below the threshold leaves the blink
\* timer alone
BlinkAfterMiss(t, now) == t

\* line 100: the milliseconds delayMicroseconds(PULSE_DURATION) takes
HoldMillis == PULSE_DURATION \div 1000

\* the pulse pin left low after the hold
PulseIdleLevelLow == "LOW"

\* line 101: the level the pulse pin is returned to
PulseIdleLevel == "HIGH"

\* line 102
CpmAfterPulse(c) == c + 1

\* line 112: the time printed
ReportMillis == ms

\* the counter not cleared by the report
CpmAfterReportKept(c) == c

\* line 114
CpmAfterReport(c) == 0

\* the report handler placed before the trial handler
LoopOrderReportFirst(p) ==
    CASE p = "button" -> "report"
      [] p = "report" -> "trial"
      [] p = "trial"  -> "blink"
      [] p = "blink"  -> "button"

\* lines 81-115: the handler that follows handler p in loop(); after the
\* last one loop() returns and is called again
LoopOrder(p) ==
    CASE p = "button" -> "trial"
      [] p = "trial"  -> "blink"
      [] p = "blink"  -> "report"
      [] p = "report" -> "button"

\* handler p is the last of loop()
EndsCall(p) == LoopOrder(p) = "button"

\* line 105: the condition under which the LED is switched off
BlinkClearFires(t, now) == TimerOnExpired(t, now)

\* history: what the switching off of line 107 makes of the indicator
IndicatorAfterClear(i) ==
    CASE i = "new"   -> "new_cleared"
      [] i = "armed" -> "cleared"
      [] OTHER       -> "twice"

-----------------------------------------------------------------------------
(* Actions                                                                  *)

\* setup(), lines 50-73
Setup ==
    /\ pc = "setup"
    /\ led_pin' = "LOW"
    /\ pulse_pin' = "HIGH"
    /\ sfmt' = SfmtSetupDraws(SfmtInitGenRand(sfmt))
    /\ minute_timer' = MinuteTimerAfterSetup(minute_timer, ms)
    /\ repetion_timer' = TimerRestart(repetion_timer, ms)
    /\ pc' = "button"
    /\ UNCHANGED <<ms, advances, blink_timer, button, threshold, fast, cpm,
                   nextrandom, records, window_pulses, iter_threshold,
                   contact, iter_pulsed, indicator>>

\* lines 81-91: feed the debouncer with the level read, toggle on a press
ButtonHandler(level) ==
    /\ pc = "button"
    /\ LET b == ButtonProcess(button, ButtonSample(level))
       IN  /\ button' = b
           /\ IF ToggleCondition(b)
              THEN /\ fast' = ToggleFast(fast)
                   /\ threshold' = ToggleThreshold(fast)
                   /\ cpm' = CpmAfterToggle(cpm)
              ELSE UNCHANGED <<fast, threshold, cpm>>
    /\ iter_threshold' = threshold
    /\ pc' = LoopOrder("button")
    /\ UNCHANGED <<ms, advances, sfmt, repetion_timer, blink_timer,
                   minute_timer, nextrandom, pulse_pin, led_pin, records,
                   window_pulses, iter_pulsed, indicator>>

\* the button handler of one loop() call, the level read being any level
ButtonStep(level) == ButtonHandler(level) /\ UNCHANGED contact

\* line 93, the timer has not run out: no trial in this loop() call
TrialSkip ==
    /\ pc = "trial"
    /\ ~TimerOnRestart(repetion_timer, ms)
    /\ repetion_timer' = TimerAfterOnRestart(repetion_timer, ms)
    /\ pc' = LoopOrder("trial")
    /\ UNCHANGED <<ms, advances, sfmt, blink_timer, minute_timer, button,
                   threshold, fast, cpm, nextrandom, pulse_pin, led_pin,
                   records, window_pulses, iter_threshold, contact,
                   iter_pulsed, indicator>>

\* lines 93-99: the timer has run out and is restarted; r is drawn; below
\* the threshold the blink timer is restarted and the pulse pin driven low
TrialFire(r) ==
    /\ pc = "trial"
    /\ TimerOnRestart(repetion_timer, ms)
    /\ repetion_timer' = TimerAfterOnRestart(repetion_timer, ms)
    /\ sfmt' = SfmtGenrand(sfmt)
    /\ nextrandom' = r
    /\ IF TrialHit(r, TrialThreshold)
       THEN /\ blink_timer' = TimerRestart(blink_timer, ms)
            /\ pulse_pin' = "LOW"
            /\ window_pulses' = window_pulses + 1
            /\ iter_pulsed' = TRUE
            /\ indicator' = "armed"
            /\ pc' = "hold"
       ELSE /\ blink_timer' = BlinkAfterMiss(blink_timer, ms)
            /\ UNCHANGED <<pulse_pin, window_pulses, iter_pulsed, indicator>>
            /\ pc' = LoopOrder("trial")
    /\ UNCHANGED <<ms, advances, minute_timer, button, threshold, fast, cpm,
                   led_pin, records, iter_threshold, contact>>

\* lines 100-102: the busy wait, the pin back high, the pulse counted
PulseHold ==
    /\ pc = "hold"
    /\ ms' = Add32(ms, ToU32(HoldMillis))
    /\ pulse_pin' = PulseIdleLevel
    /\ cpm' = CpmAfterPulse(cpm)
    /\ pc' = LoopOrder("trial")
    /\ UNCHANGED <<advances, sfmt, repetion_timer, blink_timer, minute_timer,
                   button, threshold, fast, nextrandom, led_pin, records,
                   window_pulses, iter_threshold, contact, iter_pulsed,
                   indicator>>

\* lines 105-108: the LED is switched off when the blink timer runs out
BlinkStep ==
    /\ pc = "blink"
    /\ blink_timer' = TimerAfterOnExpired(blink_timer, ms)
    /\ IF BlinkClearFires(blink_timer, ms)
       THEN /\ led_pin' = "LOW"
            /\ indicator' = IndicatorAfterClear(indicator)
       ELSE UNCHANGED <<led_pin, indicator>>
    /\ nextrandom' = Zero32
    /\ pc' = LoopOrder("blink")
    /\ iter_pulsed' = (iter_pulsed /\ ~EndsCall("blink"))
    /\ UNCHANGED <<ms, advances, sfmt, repetion_timer, minute_timer, button,
                   threshold, fast, cpm, pulse_pin, records, window_pulses,
                   iter_threshold, contact>>

\* lines 111-115: once a minute print millis() and cpm, and clear cpm
ReportStep ==
    /\ pc = "report"
    /\ minute_timer' = TimerAfterOnRestart(minute_timer, ms)
    /\ IF TimerOnRestart(minute_timer, ms)
       THEN /\ records' = Append(records, <<ReportMillis, cpm>>)
            /\ cpm' = CpmAfterReport(cpm)
            /\ window_pulses' = 0
       ELSE UNCHANGED <<records, cpm, window_pulses>>
    /\ pc' = LoopOrder("report")
    /\ iter_pulsed' = (iter_pulsed /\ ~EndsCall("report"))
    /\ UNCHANGED <<ms, advances, sfmt, repetion_timer, blink_timer, button,
                   threshold, fast, nextrandom, pulse_pin, led_pin,
                   iter_threshold, contact, indicator>>

\* the millisecond counter moves on between two loop() calls (a call that
\* makes no pulse takes microseconds; the pulse hold moves it in PulseHold)
Advance(d) ==
    /\ pc = "button"
    /\ advances < MaxAdvances
    /\ ms' = Add32(ms, d)
    /\ advances' = advances + 1
    /\ UNCHANGED <<pc, sfmt, repetion_timer, blink_timer, minute_timer,
                   button, threshold, fast, cpm, nextrandom, pulse_pin,
                   led_pin, records, window_pulses, iter_threshold,
                   contact, iter_pulsed, indicator>>

Next ==
    \/ Setup
    \/ \E level \in Levels : ButtonStep(level)
    \/ TrialSkip
    \/ \E r \in RandomValues : TrialFire(r)
    \/ PulseHold
    \/ BlinkStep
    \/ ReportStep
    \/ \E d \in Deltas : Advance(d)

Spec == Init /\ [][Next]_vars

-----------------------------------------------------------------------------
(* One press and release of the push button.  The contact is open, bounces  *)
(* while it closes, rests closed for at least as many samples as the        *)
(* debouncer needs, bounces while it opens, and stays open.  BUTTON_PIN is  *)
(* pulled up: it reads 1 while the contact is open, 0 while it is closed,   *)
(* and either while it bounces.  loop() samples it once per call; no trial  *)
(* falls due while the cycle is followed.                                   *)

\* where the contact can be at the next sample
ContactNext(c) ==
    CASE c.phase = "open"     -> {"open", "closing"}
      [] c.phase = "closing"  -> {"closing", "closed"}
      [] c.phase = "closed"   -> IF c.held >= DebounceSamples
                                 THEN {"closed", "opening"}
                                 ELSE {"closed"}
      [] c.phase = "opening"  -> {"opening", "released"}
      [] c.phase = "released" -> {"released"}

\* the levels digitalRead(BUTTON_PIN) can return with the contact there
ContactLevels(phase) ==
    CASE phase \in {"open", "released"} -> {1}
      [] phase = "closed"               -> {0}
      [] phase \in {"closing", "opening"} -> {0, 1}

\* lines 81-82 with the pin driven by the contact
PressCycleButtonStep ==
    \E phase \in ContactNext(contact) :
        \E level \in ContactLevels(phase) :
            /\ ButtonHandler(level)
            /\ contact' =
                 [phase |-> phase,
                  held  |-> IF phase = "closed" /\ contact.held < DebounceSamples
                            THEN contact.held + 1 ELSE contact.held,
                  edges |-> IF ButtonPressed(button') /\ contact.edges < 2
                            THEN contact.edges + 1 ELSE contact.edges]

PressCycleNext ==
    \/ Setup
    \/ PressCycleButtonStep
    \/ TrialSkip
    \/ BlinkStep
    \/ ReportStep

PressCycleSpec == Init /\ [][PressCycleNext]_vars

-----------------------------------------------------------------------------
(* The sketch as the Arduino core runs it: setup() once, then loop() called *)
(* again as soon as it has returned, for ever; and millis() counted on by   *)
(* the timer interrupt whatever the sketch does (here, for as long as the   *)
(* bound of the model lets it).  The button is left alone: BUTTON_PIN reads *)
(* its pulled-up level in every loop() call.                                *)

\* the level of BUTTON_PIN with the button not pressed
ButtonIdleLevel == CHOOSE level \in Levels : Xor1(level, button.pullType) = 0

\* a step of setup() or loop()
Program ==
    \/ Setup
    \/ ButtonStep(ButtonIdleLevel)
    \/ TrialSkip
    \/ \E r \in RandomValues : TrialFire(r)
    \/ PulseHold
    \/ BlinkStep
    \/ ReportStep

\* the clock moving on
Clock == \E d \in Deltas : Advance(d)

FairNext == Program \/ Clock

FairSpec ==
    /\ Init
    /\ [][FairNext]_vars
    /\ WF_vars(Program)
    /\ WF_vars(Clock)

-----------------------------------------------------------------------------
(* Properties                                                               *)

\* the trial clock fires in this step: the step is the trial of a loop()
\* call and repetion_timer has run out
TrialClockFires == pc = "trial" /\ TimerIsExpired(repetion_timer, ms)

\* the report window fires in this step
ReportWindowFires == pc = "report" /\ TimerIsExpired(minute_timer, ms)

\* the debouncer reports a press edge in this step: the step is the button
\* handler and the debounced state goes from released to pressed
PressEdge ==
    /\ pc = "button"
    /\ pc' = "trial"
    /\ button.debouncedState = 0
    /\ button'.debouncedState = 1

\* C1: on every trial-clock fire exactly one value is drawn, and the pulse
\* pin is driven low on that tick, and the counter goes up by exactly one
\* when it is returned high, if and only if the value drawn is below the
\* threshold in force; a draw equal to the threshold makes no pulse.
C1_PulseIffBelowThreshold ==
    [][/\ TrialClockFires =>
            /\ sfmt'.draws = sfmt.draws + 1
            /\ Lt32(nextrandom', threshold) <=> (pulse_pin' = "LOW" /\ pc' = "hold")
            /\ ~Lt32(nextrandom', threshold) =>
                    (pulse_pin' = pulse_pin /\ pc' = "blink" /\ cpm' = cpm)
       /\ (pc = "trial" /\ ~TrialClockFires) =>
            (sfmt' = sfmt /\ pulse_pin' = pulse_pin /\ cpm' = cpm)
       /\ pc = "hold" =>
            (Lt32(nextrandom, threshold) /\ pulse_pin' = "HIGH" /\ cpm' = cpm + 1)
       /\ cpm' > cpm => pc = "hold"
      ]_vars

\* a trial has just drawn exactly the threshold and made no pulse
C1_Witness ==
    /\ pc = "blink"
    /\ nextrandom = threshold
    /\ sfmt.draws = STARTUP_DRAWS + 1
    /\ pulse_pin = "HIGH"
    /\ cpm = 0

\* C2: the count in the record of a report-window fire is the number of
\* trial ticks that pulsed since the previous record (since the start for the
\* first record), records are printed by report-window fires only, and the
\* counter is 0 right after the report.
C2_WindowAccounting ==
    [][/\ ReportWindowFires =>
            /\ Len(records') = Len(records) + 1
            /\ records'[Len(records')][2] = window_pulses
            /\ cpm' = 0
       /\ records' # records => ReportWindowFires
       /\ pc' = "report" => cpm' = window_pulses'
      ]_vars

\* a second record has been printed that counts a pulse made after the first
C2_Witness ==
    /\ Len(records) >= 2
    /\ records[2][2] > 0
    /\ cpm = 0
    /\ window_pulses = 0
    /\ pc = "button"

\* C3: the program starts Fast with threshold HIGH_RATE * THRESHOLD_CONSTANT;
\* a press edge in the Fast state gives Slow with LOW_RATE *
\* THRESHOLD_CONSTANT, and a press edge in that state gives the Fast state
\* back.
C3_ToggleTwiceIsIdentity ==
    [][/\ pc = "setup" =>
            (fast /\ threshold = Mul32(ToU32(HIGH_RATE), THRESHOLD_CONSTANT))
       /\ PressEdge =>
            /\ (fast /\ threshold = Mul32(ToU32(HIGH_RATE), THRESHOLD_CONSTANT))
                 => (~fast' /\ threshold' = Mul32(ToU32(LOW_RATE), THRESHOLD_CONSTANT))
            /\ (~fast /\ threshold = Mul32(ToU32(LOW_RATE), THRESHOLD_CONSTANT))
                 => (fast' /\ threshold' = Mul32(ToU32(HIGH_RATE), THRESHOLD_CONSTANT))
      ]_vars

\* a press edge has just been accepted in the Slow state, which an earlier
\* press edge had set, and the setting is Fast again
C3_Witness ==
    /\ pc = "trial"
    /\ ButtonPressed(button)
    /\ iter_threshold = LowThreshold
    /\ fast
    /\ threshold = HighThreshold

\* C4: threshold and active setting change in a step if and only if the step
\* is a button handler in which the debounced state goes from released to
\* pressed, and that step flips the setting once; a handler that finds the
\* button still held, or released, changes neither.
C4_ToggleOnlyOnPressEdge ==
    [][/\ (fast' # fast \/ threshold' # threshold) <=> PressEdge
       /\ PressEdge => (fast' = ~fast /\ threshold' # threshold)
       /\ (pc = "button" /\ pc' = "trial" /\ button.debouncedState = 1) =>
            (fast' = fast /\ threshold' = threshold)
      ]_vars

\* a press edge set Slow and the button is still held in a later button
\* handler, which has left setting and threshold alone
C4_Witness ==
    /\ pc = "trial"
    /\ button.debouncedState = 1
    /\ button.changed = 0
    /\ ~fast
    /\ iter_threshold = threshold

\* the blink timer was armed by a pulse and its BLINK_TIME has not run out
IndicatorHoldRunning ==
    /\ blink_timer.state = "ACTIVE"
    /\ Lt32(Sub32(ms, blink_timer.waypoint), ToU32(BLINK_TIME))

\* C5: after a pulse the indicator output is asserted, and stays asserted
\* while the indicator-hold timer armed by that pulse is running.
C5_IndicatorAssertedAfterPulse ==
    IndicatorHoldRunning => led_pin = "HIGH"

\* C6: after setup() the pulse pin is high except during the pulse hold (so
\* at the start and at the end of every loop() call), and the only step taken
\* while it is low returns it high: no button sample, toggle, draw, blink
\* timer poll or report is serviced in between.
C6_PulseIdleHighAtomicHold ==
    [][/\ pc # "setup" => (pulse_pin = "LOW" <=> pc = "hold")
       /\ pc # "setup" => pulse_pin \in PinLevels
       /\ pc' = "button" => pulse_pin' = "HIGH"
       /\ pulse_pin = "LOW" =>
            /\ pulse_pin' = "HIGH"
            /\ UNCHANGED <<button, threshold, fast, sfmt, repetion_timer,
                           blink_timer, minute_timer, led_pin, records>>
      ]_vars

\* the pulse pin is low in the hold of a trial that hit
C6_Witness ==
    /\ pc = "hold"
    /\ pulse_pin = "LOW"
    /\ Lt32(nextrandom, threshold)
    /\ sfmt.draws > STARTUP_DRAWS

\* C7: when the button handler of a loop() call accepted a press edge and
\* the trial clock fires in the same call, the draw is compared with the
\* threshold the toggle has just set, not with the one the call started with.
C7_ToggleBeforeTrial ==
    [][(TrialClockFires /\ ButtonPressed(button)) =>
            /\ threshold # iter_threshold
            /\ threshold = Mul32(ToU32(IF fast THEN HIGH_RATE ELSE LOW_RATE),
                                 THRESHOLD_CONSTANT)
            /\ pc' = "hold" <=> Lt32(nextrandom', threshold)
      ]_vars

\* a trial hit in the call that toggled Slow to Fast, with a draw that the
\* threshold before the toggle would have missed
C7_Witness ==
    /\ pc = "hold"
    /\ ButtonPressed(button)
    /\ fast
    /\ ~Lt32(nextrandom, iter_threshold)
    /\ Lt32(nextrandom, threshold)

\* C8: the elapsed-time values of the records printed so far are strictly
\* increasing.
C8_ReportTimesIncrease ==
    \A i, j \in DOMAIN records :
        i < j => Lt32(records[i][1], records[j][1])

\* trials per report window: 60 s of trials at one per REPETITION_TIME ms
TrialsPerMinute == MINUTE_TIME \div REPETITION_TIME

\* 9/10 target <= TrialsPerMinute * thr / 2^32 <= 11/10 target, as
\* 9 * target * 2^32 <= 10 * TrialsPerMinute * thr <= 11 * target * 2^32
WithinTenPercent(thr, target) ==
    LET expected10 == MulExact(ToU32(10 * TrialsPerMinute), thr)
        low  == ToU32(9 * target)
        high == ToU32(11 * target)
    IN  /\ Le64(<<low[1], low[2], 0, 0>>, expected10)
        /\ Le64(expected10, <<high[1], high[2], 0, 0>>)

\* C9: the expected number of pulses per minute under the threshold in
\* force is within 10% of the target_rate of the active preset (HIGH_RATE,
\* LOW_RATE).
C9_ExpectedRateNearTargetRate ==
    pc # "setup" => WithinTenPercent(threshold, IF fast THEN HIGH_RATE ELSE LOW_RATE)

\* C9, amended: the expected number of pulses per minute under the threshold
\* in force is within 10% of the count rate the source gives for the active
\* preset (about 1100 CPM for Fast, about 30 CPM for Slow).
C9_ExpectedRateNearDocumentedCpm ==
    WithinTenPercent(threshold, IF fast THEN HIGH_CPM ELSE LOW_CPM)

\* the Slow preset is in force after a toggle and a trial has run under it
C9_Witness ==
    /\ ~fast
    /\ threshold = LowThreshold
    /\ WithinTenPercent(threshold, LOW_CPM)
    /\ ~WithinTenPercent(threshold, LOW_RATE)
    /\ sfmt.draws > STARTUP_DRAWS
    /\ pc = "blink"

\* the exact products of the two rates and THRESHOLD_CONSTANT
HighRateExact == MulExact(ToU32(HIGH_RATE), THRESHOLD_CONSTANT)

LowRateExact == MulExact(ToU32(LOW_RATE), THRESHOLD_CONSTANT)

\* C10: the threshold in force is the exact product of the active preset's
\* rate and UINT32_MAX >> 18: the uint32_t multiplication has not wrapped,
\* and 0 <= threshold <= UINT32_MAX.
C10_ThresholdIsExactProduct ==
    LET exact == IF fast THEN HighRateExact ELSE LowRateExact
    IN  /\ exact = <<0, 0, threshold[1], threshold[2]>>
        /\ Le32(Zero32, threshold)
        /\ Le32(threshold, UINT32_MAX)

\* a toggle has just replaced the product of HIGH_RATE by that of LOW_RATE
C10_Witness ==
    /\ ButtonPressed(button)
    /\ ~fast
    /\ threshold = ToU32(19659600)
    /\ iter_threshold = ToU32(786384000)

\* the target rate of a setting, from the flag that selects it
TargetRate(f) == IF f THEN HIGH_RATE ELSE LOW_RATE

\* C11: of the two rate settings the one with the larger target rate has the
\* larger threshold in force: a toggle that raises the target rate raises
\* the threshold, a toggle that lowers it lowers the threshold, and in every
\* state the threshold in force under Fast is above the one the toggle to
\* Slow would put in force (and under Slow below the one of Fast).
C11_ThresholdMonotoneInRate ==
    [][/\ PressEdge /\ TargetRate(fast') > TargetRate(fast)
            => Lt32(threshold, threshold')
       /\ PressEdge /\ TargetRate(fast') < TargetRate(fast)
            => Lt32(threshold', threshold)
       /\ TargetRate(fast) > TargetRate(~fast)
            => Lt32(ToggleThreshold(fast), threshold)
       /\ TargetRate(fast) < TargetRate(~fast)
            => Lt32(threshold, ToggleThreshold(fast))]_vars

\* a press has just switched from Slow back to Fast and the threshold went up
C11_Witness ==
    /\ pc = "trial"
    /\ ButtonPressed(button)
    /\ fast
    /\ Lt32(iter_threshold, threshold)

\* C12: no value is ever drawn, and no pulse ever made, while the generator
\* is unseeded: it is seeded in setup() before the first value is drawn and
\* before the first loop() call, and stays seeded.
C12_NoDrawWhileUnseeded ==
    /\ ~sfmt.drawn_unseeded
    /\ sfmt.draws > 0 => sfmt.seeded
    /\ pc # "setup" => sfmt.seeded
    /\ pulse_pin = "LOW" => sfmt.seeded

\* a trial has drawn from the seeded generator and made a pulse
C12_Witness ==
    /\ pc = "hold"
    /\ sfmt.seeded
    /\ sfmt.draws = STARTUP_DRAWS + 1
    /\ pulse_pin = "LOW"

C14_ThresholdCoherentWithSetting ==
    /\ fast \in BOOLEAN
    /\ HighThreshold # LowThreshold
    /\ fast <=> threshold = HighThreshold
    /\ ~fast <=> threshold = LowThreshold
    /\ pc = "setup" => fast

\* Slow is active, with its threshold, in a loop() call that makes a pulse
C14_Witness ==
    /\ ~fast
    /\ threshold = LowThreshold
    /\ pc = "hold"

\* C15: a trial-clock fire whose draw is not below the threshold changes
\* nothing but the generator, which has moved on by one value, and the trial
\* timer, which is restarted at the present time: the counter, the pulse
\* pin, the blink timer, the LED pin, the threshold and the active setting
\* are as before, and so are the report timer, the records, the debouncer
\* and the clock.
C15_MissChangesOnlySourceAndTrialClock ==
    [][TrialClockFires /\ ~Lt32(nextrandom', threshold)
         => /\ UNCHANGED <<cpm, pulse_pin, blink_timer, led_pin, threshold,
                           fast>>
            /\ UNCHANGED <<minute_timer, records, button, ms, window_pulses>>
            /\ sfmt' = [sfmt EXCEPT !.draws = @ + 1]
            /\ repetion_timer' =
                 [repetion_timer EXCEPT !.waypoint = ms, !.state = "ACTIVE",
                                        !.has_been_expired = FALSE]]_vars

\* a trial has just drawn the threshold itself, with a pulse already counted
\* and the blink timer of that pulse still running
C15_Witness ==
    /\ pc = "blink"
    /\ nextrandom = threshold
    /\ cpm = 1
    /\ blink_timer.state = "ACTIVE"
    /\ sfmt.draws = STARTUP_DRAWS + 2

\* C16: within one loop() call the handlers run in the order button, trial,
\* LED hold, report, and then the next call starts with the button; so when
\* the report window fires in a loop() call that has made a pulse, the
\* record that call prints counts that pulse (the count printed is every
\* pulse made since the last record) and nothing of it is left for the next
\* window.
C16_HandlersInOrderPulseInSameRecord ==
    [][/\ pc = "setup" => pc' = "button"
       /\ pc = "button" => pc' \in {"button", "trial"}
       /\ pc = "trial" => pc' \in {"hold", "blink"}
       /\ pc = "hold" => pc' = "blink"
       /\ pc = "blink" => pc' = "report"
       /\ pc = "report" => pc' = "button"
       /\ ReportWindowFires /\ iter_pulsed
            => /\ cpm >= 1
               /\ cpm = window_pulses
               /\ records' = Append(records, <<ms, cpm>>)
               /\ cpm' = 0
               /\ window_pulses' = 0]_vars

\* the report is about to fire in a loop() call that has made a pulse
C16_Witness ==
    /\ pc = "report"
    /\ iter_pulsed
    /\ TimerIsExpired(minute_timer, ms)
    /\ cpm >= 1

\* C17: the number of values drawn is five plus the number of trial-clock
\* fires so far: setup() leaves it at five, a step in which the trial clock
\* fires moves it on by exactly one (so the k-th trial consumes value 5 + k),
\* and no other step (a button sample, a toggle, the pulse hold, the LED
\* hold, a report, the passing of time) moves it at all.
C17_DrawsFollowTrialClockOnly ==
    [][/\ pc = "setup" => sfmt'.draws = 5
       /\ pc # "setup" /\ TrialClockFires => sfmt'.draws = sfmt.draws + 1
       /\ pc # "setup" /\ ~TrialClockFires => sfmt'.draws = sfmt.draws
       /\ sfmt'.seeded /\ ~sfmt'.drawn_unseeded]_vars

\* two trials have drawn values 6 and 7; a toggle and a report have happened
\* in between and have drawn nothing
C17_Witness ==
    /\ sfmt.draws = 7
    /\ ~fast
    /\ Len(records) = 1
    /\ pc = "button"

\* the switching off of line 107 runs in this step
IndicatorClearRuns == pc = "blink" /\ indicator' # indicator

C19_ToggleChangesOnlySettingAndThreshold ==
    [][/\ PressEdge
            => /\ fast' = ~fast
               /\ threshold' # threshold
               /\ UNCHANGED <<cpm, repetion_timer, blink_timer, minute_timer>>
               /\ UNCHANGED <<records, sfmt, pulse_pin, led_pin, ms,
                              window_pulses>>
       /\ ReportWindowFires
            => records' = Append(records, <<ms, window_pulses>>)]_vars

\* a press has just switched to Slow with a pulse of this window already
\* counted
C19_Witness ==
    /\ pc = "trial"
    /\ ButtonPressed(button)
    /\ ~fast
    /\ cpm = 1
    /\ window_pulses = 1

\* the time of the last record, or of setup() when there is none yet
LastRecordMillis ==
    IF records = <<>> THEN Zero32 ELSE records[Len(records)][1]

\* the report window has run out and loop() is on its way to the report
ReportDue ==
    /\ pc \in {"trial", "hold", "blink", "report"}
    /\ ~Lt32(TimerGetValue(minute_timer, ms), ToU32(MINUTE_TIME))

\* C20: while loop() keeps being called and the clock keeps moving, records
\* keep coming: whenever the report window has run out a new record is
\* printed; a record is printed exactly when the report window fires, one
\* for each fire; and each record comes at least MINUTE_TIME milliseconds
\* after the record before it (the first one after setup(), which started
\* the timer).
C20_RecordsKeepComingAMinuteApart ==
    /\ [][/\ ReportWindowFires
               => /\ records' = Append(records, <<ms, cpm>>)
                  /\ ~Lt32(Sub32(ms, LastRecordMillis), ToU32(MINUTE_TIME))
          /\ ~ReportWindowFires => records' = records]_vars
    /\ \A n \in 0..(MaxAdvances + 1) :
         (ReportDue /\ Len(records) = n) ~> (Len(records) = n + 1)

\* two records have been printed, the second a minute or more after the
\* first
C20_Witness ==
    /\ Len(records) = 2
    /\ ~Lt32(Sub32(records[2][1], records[1][1]), ToU32(MINUTE_TIME))
    /\ pc = "button"

====
